---- MODULE Spec2Model ----
(***************************************************************************)
(* Canvas Builder API: the session registry and the request handlers of    *)
(* backend/src/routes/canvas.js, as a state machine.                       *)
(*                                                                         *)
(* JavaScript values are records tagged by their type in field t, strings  *)
(* are sequences of one-character strings, so that parseInt, truthiness    *)
(* and the === undefined tests are computed as the runtime computes them.  *)
(***************************************************************************)
EXTENDS Integers, Sequences, FiniteSets, TLC

\* ------------------------------------------------------------------------
\* JavaScript values
\* ------------------------------------------------------------------------

Undefined == [t |-> "undefined"]

Null == [t |-> "null"]

Bool(b) == [t |-> "boolean", b |-> b]

\* a string value; s is its sequence of characters
Str(s) == [t |-> "string", s |-> s]

\* a finite number m * 10^e (m carries the sign; e # 0 only with m % 10 # 0)
Sci(m, e) == [t |-> "number", c |-> "fin", m |-> m, e |-> e]

JsInt(n) == Sci(n, 0)

NaN == [t |-> "number", c |-> "nan", m |-> 0, e |-> 0]

Infinity == [t |-> "number", c |-> "inf", m |-> 1, e |-> 0]

IsInt(v) == v.t = "number" /\ v.c = "fin" /\ v.e = 0

\* ToBoolean, the test behind !v and v || w
Truthy(v) ==
    CASE v.t = "undefined" -> FALSE
      [] v.t = "null" -> FALSE
      [] v.t = "boolean" -> v.b
      [] v.t = "number" -> (v.c = "inf") \/ (v.c = "fin" /\ v.m # 0)
      [] v.t = "string" -> Len(v.s) > 0
      [] OTHER -> TRUE

\* v || w
OrElse(v, w) == IF Truthy(v) THEN v ELSE w

\* the default never applied: the field keeps what the request held
DefaultUnapplied(v, d) == v

\* a destructuring default ({ f = d } = body): d replaces undefined only
Default(v, d) == IF v = Undefined THEN d ELSE v

DigitChars == <<"0", "1", "2", "3", "4", "5", "6", "7", "8", "9">>

HexChars == DigitChars \o <<"a", "b", "c", "d", "e", "f">>

RECURSIVE IndexOf(_, _, _)
\* the 0-based position of character ch in seq from position i on, -1 if none
IndexOf(seq, ch, i) ==
    IF i > Len(seq) THEN -1
    ELSE IF seq[i] = ch THEN i - 1
    ELSE IndexOf(seq, ch, i + 1)

\* the value of ch as a digit of the radix, -1 if it is none
DigitVal(ch, radix) ==
    LET d == IndexOf(HexChars, ch, 1) IN IF d >= 0 /\ d < radix THEN d ELSE -1

RECURSIVE DecDigits(_)
\* the decimal digits of a natural number, most significant first
DecDigits(n) ==
    IF n < 10 THEN <<DigitChars[n + 1]>>
    ELSE DecDigits(n \div 10) \o <<DigitChars[(n % 10) + 1]>>

RECURSIVE Zeros(_)
Zeros(n) == IF n <= 0 THEN <<>> ELSE <<"0">> \o Zeros(n - 1)

Abs(n) == IF n < 0 THEN -n ELSE n

\* the decimal digits ds of a nonzero number written with the decimal point
\* after the n-th digit: plain, with a fraction, or with an exponent
PlaceDigits(ds, n) ==
    IF Len(ds) <= n /\ n <= 21 THEN ds \o Zeros(n - Len(ds))
    ELSE IF 0 < n /\ n <= 21 THEN
        SubSeq(ds, 1, n) \o <<".">> \o SubSeq(ds, n + 1, Len(ds))
    ELSE IF -6 < n /\ n <= 0 THEN <<"0", ".">> \o Zeros(-n) \o ds
    ELSE
        (IF Len(ds) = 1 THEN ds ELSE <<ds[1], ".">> \o SubSeq(ds, 2, Len(ds)))
            \o <<"e">> \o (IF n - 1 < 0 THEN <<"-">> ELSE <<"+">>)
            \o DecDigits(Abs(n - 1))

PlaceAfter(ds, e) == PlaceDigits(ds, Len(ds) + e)

\* Number::toString(v), radix 10 (ECMA-262 6.1.6.1.20)
NumberToString(v) ==
    IF v.c = "nan" THEN <<"N", "a", "N">>
    ELSE IF v.c = "inf" THEN
        (IF v.m < 0 THEN <<"-">> ELSE <<>>)
            \o <<"I", "n", "f", "i", "n", "i", "t", "y">>
    ELSE IF v.m = 0 THEN <<"0">>
    ELSE (IF v.m < 0 THEN <<"-">> ELSE <<>>) \o PlaceAfter(DecDigits(Abs(v.m)), v.e)

\* ToString(v) for the values parseInt is handed
JsToString(v) ==
    CASE v.t = "string" -> v.s
      [] v.t = "number" -> NumberToString(v)
      [] v.t = "boolean" ->
            IF v.b THEN <<"t", "r", "u", "e">> ELSE <<"f", "a", "l", "s", "e">>
      [] v.t = "null" -> <<"n", "u", "l", "l">>
      [] OTHER -> <<"u", "n", "d", "e", "f", "i", "n", "e", "d">>

RECURSIVE TrimStart(_)
TrimStart(s) ==
    IF Len(s) > 0 /\ s[1] = " " THEN TrimStart(Tail(s)) ELSE s

RECURSIVE ParseDigits(_, _, _, _)
\* the value of the longest prefix of s made of digits of the radix, from
\* accumulator acc; seen says whether a digit was read; NaN if none was
ParseDigits(s, radix, acc, seen) ==
    IF Len(s) > 0 /\ DigitVal(s[1], radix) >= 0
    THEN ParseDigits(Tail(s), radix, acc * radix + DigitVal(s[1], radix), TRUE)
    ELSE [seen |-> seen, acc |-> acc]

\* the integer of parsed digits r, negated if neg; NaN if no digit was read
Signed(r, neg) ==
    IF r.seen THEN JsInt(IF neg THEN -r.acc ELSE r.acc) ELSE NaN

\* the integer the digits of s in the radix give
ParseRadix(s, radix, neg) == Signed(ParseDigits(s, radix, 0, FALSE), neg)

\* s without its sign: a 0x prefix makes the digits hexadecimal
ParseUnsigned(s, neg) ==
    IF Len(s) >= 2 /\ s[1] = "0" /\ s[2] \in {"x", "X"}
    THEN ParseRadix(SubSeq(s, 3, Len(s)), 16, neg)
    ELSE ParseRadix(s, 10, neg)

ParseSigned(s) ==
    IF Len(s) > 0 /\ s[1] \in {"-", "+"} THEN ParseUnsigned(Tail(s), s[1] = "-")
    ELSE ParseUnsigned(s, FALSE)

\* parseInt(v) with no radix argument (ECMA-262 19.2.5)
parseInt(v) == ParseSigned(TrimStart(JsToString(v)))

\* a <= n and a > n for a result a of parseInt (an integer or NaN) and an
\* integer literal n; both are false of NaN
Lte(a, n) ==
    /\ a.c # "nan"
    /\ IF a.c = "inf" THEN a.m < 0 ELSE a.m <= n

Gt(a, n) ==
    /\ a.c # "nan"
    /\ IF a.c = "inf" THEN a.m > 0 ELSE a.m > n

\* the number a string of decimal digits s is, NaN if some character is none
DigitsToNumber(s, neg) ==
    IF Len(s) > 0 /\ \A i \in 1..Len(s) : DigitVal(s[i], 10) >= 0
    THEN ParseRadix(s, 10, neg) ELSE NaN

\* StringToNumber for strings that are empty, an optionally signed run of
\* decimal digits, or no number at all
StringToNumber(s) ==
    IF Len(s) = 0 THEN JsInt(0)
    ELSE IF s[1] \in {"-", "+"} THEN DigitsToNumber(Tail(s), s[1] = "-")
    ELSE DigitsToNumber(s, FALSE)

\* ToNumber(v), the conversion of the arguments of the drawing primitives
ToNumber(v) ==
    CASE v.t = "number" -> v
      [] v.t = "null" -> JsInt(0)
      [] v.t = "boolean" -> JsInt(IF v.b THEN 1 ELSE 0)
      [] v.t = "string" -> StringToNumber(TrimStart(v.s))
      [] OTHER -> NaN

\* the integer a primitive reads from argument v
Coord(v) == ToNumber(v).m

\* ------------------------------------------------------------------------
\* The drawing surface (node-canvas Canvas and its 2d context)
\* ------------------------------------------------------------------------

White == <<"#", "f", "f", "f", "f", "f", "f">>

Black == <<"#", "0", "0", "0", "0", "0", "0">>

Red == <<"#", "f", "f", "0", "0", "0", "0">>

\* the pixel of a canvas nothing was painted on (rgba 0,0,0,0)
Transparent == <<>>

\* CSS colour names the parser knows, with their values
NamedColors == << <<<<"r", "e", "d">>, Red>> >>

\* the colour a fillStyle/strokeStyle setter parses from v: #rgb, #rrggbb or
\* a colour name; <<>> when v is no colour, and the setter then keeps the
\* style it had
ParseColor(v) ==
    IF v.t # "string" THEN <<>>
    ELSE LET s == v.s
             hexOk == /\ Len(s) \in {4, 7}
                      /\ s[1] = "#"
                      /\ \A i \in 2..Len(s) : DigitVal(s[i], 16) >= 0
             named == {i \in 1..Len(NamedColors) : NamedColors[i][1] = s}
         IN IF hexOk THEN
                IF Len(s) = 7 THEN s
                ELSE <<"#", s[2], s[2], s[3], s[3], s[4], s[4]>>
            ELSE IF named # {} THEN NamedColors[CHOOSE i \in named : TRUE][2]
            ELSE <<>>

\* ctx.fillStyle = v, ctx.strokeStyle = v
SetStyle(old, v) == IF ParseColor(v) = <<>> THEN old ELSE ParseColor(v)

\* ToUint32 of a canvas dimension: NaN becomes 0
ToUint32(v) == IF IsInt(v) /\ v.m >= 0 THEN v.m ELSE 0

DefaultFont == <<"1", "0", "p", "x", " ", "s", "a", "n", "s", "-", "s", "e", "r", "i", "f">>

AlignStart == <<"s", "t", "a", "r", "t">>

\* canvas.getContext('2d') of a new canvas: the default drawing state
NewContext ==
    [fillStyle |-> Black, strokeStyle |-> Black, lineWidth |-> 1,
     font |-> DefaultFont, textAlign |-> AlignStart, textBaseline |-> "alphabetic"]

\* createCanvas(w, h): a surface of ToUint32(w) by ToUint32(h) transparent
\* pixels; ops is the sequence of primitives painted on it so far
createCanvas(w, h) ==
    [width |-> ToUint32(w), height |-> ToUint32(h), ctx |-> NewContext, ops |-> <<>>]

\* the primitives take finite numbers only; any other argument makes the
\* call a no-op
AllFinite(args) == \A i \in 1..Len(args) : IsInt(ToNumber(args[i]))

\* one painted primitive: a box (x, y, w, h) or a disc/ring (x, y, r)
Primitive(prim, x, y, w, h, r, color, lineWidth) ==
    [prim |-> prim, x |-> x, y |-> y, w |-> w, h |-> h, r |-> r,
     color |-> color, lineWidth |-> lineWidth]

\* ctx.fillRect(x, y, w, h) with the current fillStyle
fillRect(cv, x, y, w, h) ==
    IF ~AllFinite(<<x, y, w, h>>) THEN cv
    ELSE [cv EXCEPT !.ops = Append(@,
            Primitive("fillRect", Coord(x), Coord(y),
                      Coord(w), Coord(h), 0, cv.ctx.fillStyle, 0))]

\* ctx.strokeRect(x, y, w, h) with the current strokeStyle and lineWidth
strokeRect(cv, x, y, w, h) ==
    IF ~AllFinite(<<x, y, w, h>>) THEN cv
    ELSE [cv EXCEPT !.ops = Append(@,
            Primitive("strokeRect", Coord(x), Coord(y),
                      Coord(w), Coord(h), 0, cv.ctx.strokeStyle,
                      cv.ctx.lineWidth))]

Min(a, b) == IF a < b THEN a ELSE b

Max(a, b) == IF a > b THEN a ELSE b

\* whether primitive op paints pixel (px, py), the unit square from (px, py);
\* a disc or ring paints the pixels whose centre lies in it
Covers(op, px, py) ==
    LET x0 == Min(op.x, op.x + op.w)
        x1 == Max(op.x, op.x + op.w)
        y0 == Min(op.y, op.y + op.h)
        y1 == Max(op.y, op.y + op.h)
        hw == op.lineWidth \div 2
        d2 == (2 * px + 1 - 2 * op.x) * (2 * px + 1 - 2 * op.x)
                + (2 * py + 1 - 2 * op.y) * (2 * py + 1 - 2 * op.y)
    IN CASE op.prim \in {"fillRect", "drawImage", "fillText"} ->
                x0 <= px /\ px < x1 /\ y0 <= py /\ py < y1
         [] op.prim = "strokeRect" ->
                /\ (x1 > x0 \/ y1 > y0)
                /\ x0 - hw <= px /\ px < x1 + hw
                /\ y0 - hw <= py /\ py < y1 + hw
                /\ ~(x0 + hw <= px /\ px < x1 - hw /\ y0 + hw <= py /\ py < y1 - hw)
         [] op.prim = "fill" -> d2 <= 4 * op.r * op.r
         [] op.prim = "stroke" ->
                /\ d2 <= 4 * (op.r + hw) * (op.r + hw)
                /\ (op.r <= hw \/ d2 >= 4 * (op.r - hw) * (op.r - hw))
         [] OTHER -> FALSE

RECURSIVE PaintedAt(_, _, _, _)
\* the colour of pixel (px, py) after the first n primitives of ops, later
\* primitives painted over earlier ones
PaintedAt(ops, n, px, py) ==
    IF n = 0 THEN Transparent
    ELSE IF Covers(ops[n], px, py) THEN ops[n].color
    ELSE PaintedAt(ops, n - 1, px, py)

\* the colour of pixel (px, py) of canvas cv
PixelAt(cv, px, py) == PaintedAt(cv.ops, Len(cv.ops), px, py)

\* ctx.beginPath(); ctx.arc(x, y, radius, 0, 2 * Math.PI); then ctx.fill()
\* or ctx.stroke() of that path with the styles set after the arc
arcPath(cv, prim, x, y, radius) ==
    IF ~AllFinite(<<x, y, radius>>) \/ Coord(radius) < 0 THEN cv
    ELSE [cv EXCEPT !.ops = Append(@,
            Primitive(prim, Coord(x), Coord(y), 0, 0, Coord(radius),
                      IF prim = "fill" THEN cv.ctx.fillStyle ELSE cv.ctx.strokeStyle,
                      IF prim = "fill" THEN 0 ELSE cv.ctx.lineWidth))]

\* the px size a font string starts with, -1 when the string is no font
\* (<size>px <family>)
FontSize(font) ==
    LET r == ParseDigits(font, 10, 0, FALSE)
        k == Len(DecDigits(r.acc))
    IN IF /\ r.seen
          /\ font[1] # "0"
          /\ Len(font) > k + 3
          /\ SubSeq(font, k + 1, k + 3) = <<"p", "x", " ">>
       THEN r.acc ELSE -1

\* ctx.font = font: a string that is no font leaves the font as it was
SetFont(old, font) == IF FontSize(font) < 0 THEN old ELSE font

Aligns ==
    { <<"l", "e", "f", "t">>, <<"r", "i", "g", "h", "t">>,
      <<"c", "e", "n", "t", "e", "r">>, <<"s", "t", "a", "r", "t">>,
      <<"e", "n", "d">> }

\* ctx.textAlign = v: a value that is no alignment leaves it as it was
SetAlign(old, v) == IF v.t = "string" /\ v.s \in Aligns THEN v.s ELSE old

\* ctx.fillText(text, x, y) with the current font, fillStyle, textAlign and
\* a top baseline: the run is painted as its em box, one em square a character
fillText(cv, text, x, y) ==
    IF ~AllFinite(<<x, y>>) THEN cv
    ELSE LET size == FontSize(cv.ctx.font)
             run == Len(JsToString(text)) * size
             left == CASE cv.ctx.textAlign \in {<<"r", "i", "g", "h", "t">>, <<"e", "n", "d">>} ->
                            Coord(x) - run
                       [] cv.ctx.textAlign = <<"c", "e", "n", "t", "e", "r">> ->
                            Coord(x) - (run \div 2)
                       [] OTHER -> Coord(x)
         IN [cv EXCEPT !.ops = Append(@,
                Primitive("fillText", left, Coord(y), run, size, 0,
                          cv.ctx.fillStyle, 0))]

\* ctx.drawImage(img, x, y, w, h): the image scaled into the box
drawImage(cv, img, x, y, w, h) ==
    IF ~AllFinite(<<x, y, w, h>>) THEN cv
    ELSE [cv EXCEPT !.ops = Append(@,
            Primitive("drawImage", Coord(x), Coord(y),
                      Coord(w), Coord(h), 0, img.color, 0))]

\* ------------------------------------------------------------------------
\* State
\* ------------------------------------------------------------------------

VARIABLES
    canvases,   \* the registry: own properties of the canvases object
    issued,     \* how many identifiers uuidv4 has generated
    pending,    \* the image adds suspended in await loadImage, oldest first
    deleted,    \* the identifiers a delete has answered 200 for (history)
    req,        \* the request of the last handler step, with the step's place
    res         \* the response that step sent (status 0: none sent yet)

vars == <<canvases, issued, pending, deleted, req, res>>

\* bounds of the model
MaxSessions == 2

MaxElements == 2

MaxPending == 1

\* the loads in flight where image adds overlap
MaxLoads == 2

\* the budget of elements where two sessions are compared
MaxDrawElements == 4

\* the largest dimension init accepts
MaxDim == 5000

\* an identifier generator that returns the same identifier every time
uuidv4Fixed(n) == "u1"

\* the n-th identifier uuidv4 returns: fresh each time
uuidv4(n) == "u" \o ToString(n)

\* property names every object inherits from Object.prototype
ProtoKeys == {"constructor", "__proto__", "toString", "valueOf", "hasOwnProperty"}

\* canvases[id]: the own property, else the inherited one, else undefined
Lookup(reg, id) ==
    IF id \in DOMAIN reg THEN reg[id]
    ELSE IF id \in ProtoKeys THEN [t |-> "function"]
    ELSE Undefined

\* whether v carries the properties the handlers read from a session
IsSession(v) == v.t = "object"

\* res.status(status).json(json)
Reply(status, json) == [status |-> status, json |-> json]

Error(message) == [error |-> message]

Message(message) == [message |-> message]

NoReply == Reply(0, [none |-> TRUE])

\* the body of a request that carries none
NoBody == [t |-> "object"]

Request(op, id, body, pc) == [op |-> op, id |-> id, body |-> body, pc |-> pc]

\* the elements logged in all sessions, and the adds still to log one
TotalElements(reg) ==
    LET RECURSIVE Sum(_)
        Sum(ids) ==
            IF ids = {} THEN 0
            ELSE LET i == CHOOSE i \in ids : TRUE
                 IN Len(reg[i].elements) + Sum(ids \ {i})
    IN Sum(DOMAIN reg)

\* the model's budget of elements: a step is explored while the elements
\* logged and the adds suspended number at most limit after it
Room(limit) == TotalElements(canvases') + Len(pending') <= limit

\* the model's budget of loads: a step is explored while at most limit image
\* adds are suspended after it
InFlight(limit) == Len(pending') <= limit

\* ------------------------------------------------------------------------
\* POST /init
\* ------------------------------------------------------------------------

DimsMissing(width, height) == ~Truthy(width) \/ ~Truthy(height)

DimsNotPositive(w, h) == Lte(w, 0) \/ Lte(h, 0)

\* the bound compared with >= instead of >
DimsTooLargeOffByOne(w, h) == Gt(w, MaxDim - 1) \/ Gt(h, MaxDim - 1)

DimsTooLarge(w, h) == Gt(w, MaxDim) \/ Gt(h, MaxDim)

\* the session init stores: a canvas of w by h filled white, no elements
NewSession(w, h) ==
    LET canvas == createCanvas(w, h)
        white == [canvas EXCEPT !.ctx.fillStyle = SetStyle(@, Str(White))]
    IN [t |-> "object",
        canvas |-> fillRect(white, JsInt(0), JsInt(0), w, h),
        width |-> w, height |-> h, elements |-> <<>>]

InitCanvas(body) ==
    LET width == body.width
        height == body.height
        w == parseInt(width)
        h == parseInt(height)
        id == uuidv4(issued + 1)
    IN /\ req' = Request("init", "", body, "entry")
       /\ UNCHANGED <<pending, deleted>>
       /\ IF DimsMissing(width, height) THEN
              /\ res' = Reply(400, Error("Width and height are required"))
              /\ UNCHANGED <<canvases, issued>>
          ELSE IF DimsNotPositive(w, h) THEN
              /\ res' = Reply(400, Error("Dimensions must be positive numbers"))
              /\ UNCHANGED <<canvases, issued>>
          ELSE IF DimsTooLarge(w, h) THEN
              /\ res' = Reply(400, Error("Dimensions cannot exceed 5000px"))
              /\ UNCHANGED <<canvases, issued>>
          ELSE
              /\ issued < MaxSessions
              /\ issued' = issued + 1
              /\ canvases' = (id :> NewSession(w, h)) @@ canvases
              /\ res' = Reply(200, [id |-> id,
                                    message |-> "Canvas initialized successfully",
                                    width |-> w, height |-> h])

\* ------------------------------------------------------------------------
\* POST /:id/add/rectangle, /:id/add/circle, /:id/add/text
\* ------------------------------------------------------------------------

NotFound == Reply(404, Error("Canvas not found"))

\* the check with the test of y left out
RectMissingNoY(x, y, width, height) ==
    x = Undefined \/ ~Truthy(width) \/ ~Truthy(height)

RectMissing(x, y, width, height) ==
    x = Undefined \/ y = Undefined \/ ~Truthy(width) \/ ~Truthy(height)

\* the drawing calls of add/rectangle on canvas cv
DrawRectangle(cv, x, y, width, height, color, isFilled) ==
    LET styled == [cv EXCEPT !.ctx.fillStyle = SetStyle(@, color),
                             !.ctx.strokeStyle = SetStyle(@, color),
                             !.ctx.lineWidth = 2]
    IN IF Truthy(isFilled) THEN fillRect(styled, x, y, width, height)
       ELSE strokeRect(styled, x, y, width, height)

RectElement(x, y, width, height, color, isFilled) ==
    [type |-> "rectangle", x |-> x, y |-> y, width |-> width, height |-> height,
     color |-> color, isFilled |-> isFilled]

AddRectangle(id, body) ==
    LET x == body.x
        y == body.y
        width == body.width
        height == body.height
        color == Default(body.color, Str(Black))
        isFilled == Default(body.isFilled, Bool(TRUE))
        found == Lookup(canvases, id)
    IN /\ req' = Request("add/rectangle", id, body, "entry")
       /\ UNCHANGED <<issued, pending, deleted>>
       /\ IF ~Truthy(found) THEN
              res' = NotFound /\ UNCHANGED canvases
          ELSE IF RectMissing(x, y, width, height) THEN
              /\ res' = Reply(400, Error("x, y, width, and height are required"))
              /\ UNCHANGED canvases
          ELSE IF ~IsSession(found) THEN
              \* canvases[id].canvas is undefined: getContext throws
              /\ res' = Reply(500, Error("Failed to add rectangle"))
              /\ UNCHANGED canvases
          ELSE
              /\ canvases' = [canvases EXCEPT
                    ![id].canvas = DrawRectangle(@, x, y, width, height, color, isFilled),
                    ![id].elements = Append(@,
                        RectElement(x, y, width, height, color, isFilled))]
              /\ res' = Reply(200, Message("Rectangle added successfully"))

CircleMissing(x, y, radius) ==
    x = Undefined \/ y = Undefined \/ ~Truthy(radius)

\* the drawing calls of add/circle on canvas cv: the path is built first and
\* filled or stroked with the styles set after it
DrawCircle(cv, x, y, radius, color, isFilled) ==
    LET styled == [cv EXCEPT !.ctx.fillStyle = SetStyle(@, color),
                             !.ctx.strokeStyle = SetStyle(@, color),
                             !.ctx.lineWidth = 2]
    IN arcPath(styled, IF Truthy(isFilled) THEN "fill" ELSE "stroke", x, y, radius)

\* ctx.arc with finite arguments and a negative radius: a RangeError in the
\* builds that check the radius, an empty arc in the others
ArcMayThrow(x, y, radius) == AllFinite(<<x, y, radius>>) /\ Coord(radius) < 0

\* the styles assigned ahead of the path, so that a throwing arc leaves them
ArcThrewStyled(cv, color) ==
    [cv EXCEPT !.ctx.fillStyle = SetStyle(@, color),
               !.ctx.strokeStyle = SetStyle(@, color),
               !.ctx.lineWidth = 2]

\* the canvas as a throwing arc leaves it: the path is begun, and the
\* assignments of the styles that follow the arc are not reached
ArcThrew(cv, color) == cv

CircleElement(x, y, radius, color, isFilled) ==
    [type |-> "circle", x |-> x, y |-> y, radius |-> radius,
     color |-> color, isFilled |-> isFilled]

AddCircle(id, body) ==
    LET x == body.x
        y == body.y
        radius == body.radius
        color == Default(body.color, Str(Black))
        isFilled == Default(body.isFilled, Bool(TRUE))
        found == Lookup(canvases, id)
    IN /\ req' = Request("add/circle", id, body, "entry")
       /\ UNCHANGED <<issued, pending, deleted>>
       /\ IF ~Truthy(found) THEN
              res' = NotFound /\ UNCHANGED canvases
          ELSE IF CircleMissing(x, y, radius) THEN
              /\ res' = Reply(400, Error("x, y, and radius are required"))
              /\ UNCHANGED canvases
          ELSE IF ~IsSession(found) THEN
              /\ res' = Reply(500, Error("Failed to add circle"))
              /\ UNCHANGED canvases
          ELSE
              \/ /\ canvases' = [canvases EXCEPT
                        ![id].canvas = DrawCircle(@, x, y, radius, color, isFilled),
                        ![id].elements = Append(@,
                            CircleElement(x, y, radius, color, isFilled))]
                 /\ res' = Reply(200, Message("Circle added successfully"))
              \/ /\ ArcMayThrow(x, y, radius)
                 /\ canvases' = [canvases EXCEPT ![id].canvas = ArcThrew(@, color)]
                 /\ res' = Reply(500, Error("Failed to add circle"))

TextMissing(text, x, y) ==
    ~Truthy(text) \/ x = Undefined \/ y = Undefined

\* the drawing calls of add/text on canvas cv
DrawText(cv, text, x, y, fontSize, fontFamily, color, align) ==
    LET font == JsToString(fontSize) \o <<"p", "x", " ">> \o JsToString(fontFamily)
        styled == [cv EXCEPT !.ctx.font = SetFont(@, font),
                             !.ctx.fillStyle = SetStyle(@, color),
                             !.ctx.textAlign = SetAlign(@, align),
                             !.ctx.textBaseline = "top"]
    IN fillText(styled, text, x, y)

TextElement(text, x, y, fontSize, fontFamily, color, align) ==
    [type |-> "text", text |-> text, x |-> x, y |-> y, fontSize |-> fontSize,
     fontFamily |-> fontFamily, color |-> color, align |-> align]

Arial == <<"A", "r", "i", "a", "l">>

AddText(id, body) ==
    LET text == body.text
        x == body.x
        y == body.y
        fontSize == Default(body.fontSize, JsInt(16))
        fontFamily == Default(body.fontFamily, Str(Arial))
        color == Default(body.color, Str(Black))
        align == Default(body.align, Str(<<"l", "e", "f", "t">>))
        found == Lookup(canvases, id)
    IN /\ req' = Request("add/text", id, body, "entry")
       /\ UNCHANGED <<issued, pending, deleted>>
       /\ IF ~Truthy(found) THEN
              res' = NotFound /\ UNCHANGED canvases
          ELSE IF TextMissing(text, x, y) THEN
              /\ res' = Reply(400, Error("text, x, and y are required"))
              /\ UNCHANGED canvases
          ELSE IF ~IsSession(found) THEN
              /\ res' = Reply(500, Error("Failed to add text"))
              /\ UNCHANGED canvases
          ELSE
              /\ canvases' = [canvases EXCEPT
                    ![id].canvas = DrawText(@, text, x, y, fontSize, fontFamily,
                                            color, align),
                    ![id].elements = Append(@,
                        TextElement(text, x, y, fontSize, fontFamily, color, align))]
              /\ res' = Reply(200, Message("Text added successfully"))

\* ------------------------------------------------------------------------
\* POST /:id/add/image, /:id/add/image-upload
\* ------------------------------------------------------------------------

Blue == <<"#", "0", "0", "0", "0", "f", "f">>

\* the images loadImage can resolve to: natural size and (uniform) content
Images == {[width |-> 2, height |-> 1, color |-> Blue]}

ImageMissing(url, x, y) ==
    ~Truthy(url) \/ x = Undefined \/ y = Undefined

UploadMissing(file) == ~Truthy(file)

\* the handler up to its await: the checks, then the suspension in loadImage
AddImageStart(op, id, body) ==
    LET found == Lookup(canvases, id)
        missing == IF op = "add/image" THEN ImageMissing(body.url, body.x, body.y)
                   ELSE UploadMissing(body.file)
    IN /\ req' = Request(op, id, body, "entry")
       /\ UNCHANGED <<canvases, issued, deleted>>
       /\ IF ~Truthy(found) THEN
              res' = NotFound /\ UNCHANGED pending
          ELSE IF missing THEN
              /\ res' = Reply(400, Error(IF op = "add/image"
                                         THEN "url, x, and y are required"
                                         ELSE "Image file is required"))
              /\ UNCHANGED pending
          ELSE
              /\ pending' = Append(pending, [op |-> op, id |-> id, body |-> body])
              /\ res' = NoReply

LoadFailure(op) ==
    Reply(500, Error(IF op = "add/image" THEN "Failed to load or add image"
                     ELSE "Failed to upload or add image"))

ImageElement(url, x, y, width, height) ==
    [type |-> "image", url |-> url, x |-> x, y |-> y,
     width |-> width, height |-> height]

UploadElement(x, y, width, height) ==
    [type |-> "image", x |-> x, y |-> y, width |-> width, height |-> height]

\* the log assigned a new array holding the element, instead of a push
DrawUrlImageFreshLog(session, img, body) ==
    [session EXCEPT
        !.canvas = drawImage(@, img, body.x, body.y, JsInt(img.width), JsInt(img.height)),
        !.elements = << ImageElement(body.url, body.x, body.y,
                                     JsInt(img.width), JsInt(img.height)) >>]

\* the element pushed once before the draw and once after it
DrawUrlImageTwice(session, img, body) ==
    [session EXCEPT
        !.canvas = drawImage(@, img, body.x, body.y, JsInt(img.width), JsInt(img.height)),
        !.elements = @ \o << ImageElement(body.url, body.x, body.y,
                                          JsInt(img.width), JsInt(img.height)),
                             ImageElement(body.url, body.x, body.y,
                                          JsInt(img.width), JsInt(img.height)) >>]

\* add/image after its await: the draw box, the draw and the logged element
DrawUrlImage(session, img, body) ==
    LET drawWidth == OrElse(body.width, JsInt(img.width))
        drawHeight == OrElse(body.height, JsInt(img.height))
    IN [session EXCEPT
            !.canvas = drawImage(@, img, body.x, body.y, drawWidth, drawHeight),
            !.elements = Append(@,
                ImageElement(body.url, body.x, body.y, drawWidth, drawHeight))]

\* the upload drawn with its element left to be logged later
DrawUploadImageUnlogged(session, img, body) ==
    [session EXCEPT
        !.canvas = drawImage(@, img, parseInt(Default(body.x, JsInt(0))),
                             parseInt(Default(body.y, JsInt(0))),
                             JsInt(img.width), JsInt(img.height))]

\* the upload's element put at the head of the log (unshift for push)
DrawUploadImageFirst(session, img, body) ==
    [session EXCEPT
        !.canvas = drawImage(@, img, parseInt(Default(body.x, JsInt(0))),
                             parseInt(Default(body.y, JsInt(0))),
                             JsInt(img.width), JsInt(img.height)),
        !.elements = << UploadElement(parseInt(Default(body.x, JsInt(0))),
                                      parseInt(Default(body.y, JsInt(0))),
                                      JsInt(img.width), JsInt(img.height)) >> \o @]

\* add/image-upload after its await
DrawUploadImage(session, img, body) ==
    LET x == Default(body.x, JsInt(0))
        y == Default(body.y, JsInt(0))
        drawWidth == IF Truthy(body.width) THEN parseInt(body.width)
                     ELSE JsInt(img.width)
        drawHeight == IF Truthy(body.height) THEN parseInt(body.height)
                      ELSE JsInt(img.height)
    IN [session EXCEPT
            !.canvas = drawImage(@, img, parseInt(x), parseInt(y), drawWidth, drawHeight),
            !.elements = Append(@,
                UploadElement(parseInt(x), parseInt(y), drawWidth, drawHeight))]

\* the address of a server that accepts the connection and never answers
StallUrl == Str(<<"h", "t", "t", "p", ":", "/", "/", "s">>)

\* whether loadImage of the suspended add p settles: a buffer is decoded in
\* the process, a URL is fetched with no timeout and no abort, so that the
\* promise stays pending while the server stays silent
Settles(p) == ~(p.op = "add/image" /\ p.body.url = StallUrl)

RemoveAt(seq, i) == SubSeq(seq, 1, i - 1) \o SubSeq(seq, i + 1, Len(seq))

\* the element logged before the await, so that a failed load leaves it
AddImageRejectedAfterLog(i) ==
    LET p == pending[i]
    IN /\ req' = Request(p.op, p.id, p.body, "rejected")
       /\ pending' = RemoveAt(pending, i)
       /\ res' = LoadFailure(p.op)
       /\ canvases' =
            IF p.id \in DOMAIN canvases
            THEN [canvases EXCEPT ![p.id].elements = Append(@, [type |-> "image"])]
            ELSE canvases
       /\ UNCHANGED <<issued, deleted>>

\* loadImage of the i-th suspended add rejects: the catch block answers
AddImageRejected(i) ==
    LET p == pending[i]
    IN /\ Settles(p)
       /\ req' = Request(p.op, p.id, p.body, "rejected")
       /\ pending' = RemoveAt(pending, i)
       /\ res' = LoadFailure(p.op)
       /\ UNCHANGED <<canvases, issued, deleted>>

\* loadImage of the i-th suspended add resolves to img: the handler resumes
AddImageLoaded(i, img) ==
    LET p == pending[i]
        found == Lookup(canvases, p.id)
    IN /\ Settles(p)
       /\ req' = Request(p.op, p.id, p.body, "loaded")
       /\ pending' = RemoveAt(pending, i)
       /\ UNCHANGED <<issued, deleted>>
       /\ IF ~IsSession(found) THEN
              \* canvases[id] is undefined, or has no canvas: a TypeError
              res' = LoadFailure(p.op) /\ UNCHANGED canvases
          ELSE
              /\ canvases' = [canvases EXCEPT ![p.id] =
                    IF p.op = "add/image" THEN DrawUrlImage(@, img, p.body)
                    ELSE DrawUploadImage(@, img, p.body)]
              /\ res' = Reply(200, Message(IF p.op = "add/image"
                                           THEN "Image added successfully"
                                           ELSE "Image uploaded and added successfully"))

\* ------------------------------------------------------------------------
\* GET /:id/export/pdf, /:id/preview, /:id/info and DELETE /:id
\* ------------------------------------------------------------------------

\* the encoding of a canvas nothing was painted on, whatever cv holds
toBufferBlank(cv) == [width |-> cv.width, height |-> cv.height, ops |-> <<>>]

\* canvas.toBuffer('image/png'): the surface's size and pixels, losslessly
toBuffer(cv) == [width |-> cv.width, height |-> cv.height, ops |-> cv.ops]

\* encoding a surface with no pixels may fail in the PNG encoder
toBufferMayThrow(cv) == cv.width = 0 \/ cv.height = 0

\* the document with the size option left out: a page of the default size
PdfDocumentLetter(buffer, width, height) ==
    [size |-> <<JsInt(612), JsInt(792)>>, compress |-> TRUE,
     pages |-> << [image |-> buffer, x |-> 0, y |-> 0,
                   width |-> width, height |-> height] >>]

\* the document export/pdf pipes: one page of size [width, height] with the
\* snapshot at (0, 0) in a box of width by height
PdfDocument(buffer, width, height) ==
    [size |-> <<width, height>>, compress |-> TRUE,
     pages |-> << [image |-> buffer, x |-> 0, y |-> 0,
                   width |-> width, height |-> height] >>]

ExportPdf(id) ==
    LET found == Lookup(canvases, id)
    IN /\ req' = Request("export/pdf", id, NoBody, "entry")
       /\ UNCHANGED <<canvases, issued, pending, deleted>>
       /\ IF ~Truthy(found) THEN res' = NotFound
          ELSE IF ~IsSession(found) THEN
              res' = Reply(500, Error("Failed to export PDF"))
          ELSE
              \/ res' = Reply(200, PdfDocument(toBuffer(found.canvas),
                                               found.width, found.height))
              \/ /\ toBufferMayThrow(found.canvas)
                 /\ res' = Reply(500, Error("Failed to export PDF"))

\* a preview that waits for the image loads in flight before it answers
PreviewAwaitsLoads(id) ==
    /\ req' = Request("preview", id, NoBody, "entry")
    /\ UNCHANGED <<canvases, issued, pending, deleted>>
    /\ res' = IF id \notin DOMAIN canvases THEN NotFound
              ELSE IF pending # <<>> THEN NoReply
              ELSE Reply(200, toBuffer(canvases[id].canvas))

Preview(id) ==
    LET found == Lookup(canvases, id)
    IN /\ req' = Request("preview", id, NoBody, "entry")
       /\ UNCHANGED <<canvases, issued, pending, deleted>>
       /\ IF ~Truthy(found) THEN res' = NotFound
          ELSE IF ~IsSession(found) THEN
              res' = Reply(500, Error("Failed to get preview"))
          ELSE
              \/ res' = Reply(200, toBuffer(found.canvas))
              \/ /\ toBufferMayThrow(found.canvas)
                 /\ res' = Reply(500, Error("Failed to get preview"))

\* info that hands the log out by emptying it
InfoDrainsLog(id) ==
    LET found == Lookup(canvases, id)
    IN /\ req' = Request("info", id, NoBody, "entry")
       /\ UNCHANGED <<issued, pending, deleted>>
       /\ IF ~IsSession(found) THEN res' = NotFound /\ UNCHANGED canvases
          ELSE /\ res' = Reply(200, [id |-> id, elements |-> found.elements])
               /\ canvases' = [canvases EXCEPT ![id].elements = <<>>]

\* an answer that lists the elements newest first
InfoJsonNewestFirst(id, session) ==
    [id |-> id, width |-> session.width, height |-> session.height,
     elementCount |-> Len(session.elements),
     elements |-> [i \in 1..Len(session.elements) |->
                      session.elements[Len(session.elements) + 1 - i]]]

\* what info answers for a session
InfoJson(id, session) ==
    [id |-> id, width |-> session.width, height |-> session.height,
     elementCount |-> Len(session.elements), elements |-> session.elements]

Info(id) ==
    LET found == Lookup(canvases, id)
    IN /\ req' = Request("info", id, NoBody, "entry")
       /\ UNCHANGED <<canvases, issued, pending, deleted>>
       /\ IF ~Truthy(found) THEN res' = NotFound
          ELSE IF ~IsSession(found) THEN
              \* elements is undefined: elements.length throws
              res' = Reply(500, Error("Failed to get canvas info"))
          ELSE res' = Reply(200, InfoJson(id, found))

\* the registry replaced by an empty object, instead of one property removed
DeleteEverything(reg, id) == [k \in {} |-> reg[k]]

\* delete canvases[id]: removes an own property, and is a no-op otherwise
DeleteProperty(reg, id) == [k \in DOMAIN reg \ {id} |-> reg[k]]

Delete(id) ==
    LET found == Lookup(canvases, id)
    IN /\ req' = Request("delete", id, NoBody, "entry")
       /\ UNCHANGED <<issued, pending>>
       /\ IF ~Truthy(found) THEN
              res' = NotFound /\ UNCHANGED <<canvases, deleted>>
          ELSE
              /\ canvases' = DeleteProperty(canvases, id)
              /\ deleted' = deleted \cup {id}
              /\ res' = Reply(200, Message("Canvas deleted successfully"))

\* ------------------------------------------------------------------------
\* Requests
\* ------------------------------------------------------------------------

\* the identifiers init can return
Uuids == {uuidv4(n) : n \in 1..MaxSessions}

\* the identifiers callers send: every one init can return, one that is no
\* property of the registry at all, and one inherited from Object.prototype
Ids == Uuids \cup {"nope", "constructor"}

InitBody(width, height) == [width |-> width, height |-> height]

RectBody(x, y, width, height, color, isFilled) ==
    [x |-> x, y |-> y, width |-> width, height |-> height,
     color |-> color, isFilled |-> isFilled]

CircleBody(x, y, radius, color, isFilled) ==
    [x |-> x, y |-> y, radius |-> radius, color |-> color, isFilled |-> isFilled]

TextBody(text, x, y, fontSize, fontFamily, color, align) ==
    [text |-> text, x |-> x, y |-> y, fontSize |-> fontSize,
     fontFamily |-> fontFamily, color |-> color, align |-> align]

ImageBody(url, x, y, width, height) ==
    [url |-> url, x |-> x, y |-> y, width |-> width, height |-> height]

\* a multipart request: the text fields arrive as strings, the file apart
UploadBody(file, x, y, width, height) ==
    [file |-> file, x |-> x, y |-> y, width |-> width, height |-> height]

Url == Str(<<"h", "t", "t", "p", ":", "/", "/", "a", "/", "i">>)

File == [t |-> "object", buffer |-> "png"]

\* the spec's rectangle example, scaled to a small canvas
RedRect == RectBody(JsInt(0), JsInt(0), JsInt(2), JsInt(1), Str(Red), Undefined)

\* the requests of the main specification: per operation a body that passes
\* validation and a body that lacks a required field
Requests ==
    [ ids |-> Ids,
      elements |-> MaxElements,
      loads |-> MaxPending,
      init |-> { InitBody(JsInt(2), JsInt(2)), InitBody(JsInt(0), JsInt(2)) },
      rect |-> { RedRect,
                 RectBody(JsInt(0), Undefined, JsInt(1), JsInt(1), Undefined, Undefined) },
      circle |-> { CircleBody(JsInt(1), JsInt(1), JsInt(1), Str(<<"r", "e", "d">>),
                              Bool(FALSE)),
                   CircleBody(JsInt(1), JsInt(1), Undefined, Undefined, Undefined) },
      text |-> { TextBody(Str(<<"h", "i">>), JsInt(0), JsInt(0), JsInt(1), Undefined,
                          Undefined, Undefined),
                 TextBody(Undefined, JsInt(0), JsInt(0), Undefined, Undefined,
                          Str(Red), Undefined) },
      image |-> { ImageBody(Url, JsInt(0), JsInt(0), JsInt(0), Undefined),
                  ImageBody(Url, Undefined, JsInt(0), JsInt(1), JsInt(1)) },
      upload |-> { UploadBody(File, Str(<<"1">>), Undefined, Str(<<"1", ".", "5">>),
                              Undefined),
                   UploadBody(Undefined, Str(<<"1">>), Str(<<"0">>), Undefined,
                              Undefined) } ]

\* width values sent to init: absent, zero, negative, the bounds 1 and 5000,
\* above 5000 as an integer, a fraction and a number printed with an
\* exponent, and strings that are and are not numbers
DimValues ==
    { Undefined, JsInt(0), JsInt(-5), JsInt(1), JsInt(5000), JsInt(6000),
      Sci(50005, -1), Sci(1, 21), Str(<<"3">>), Str(<<"a", "b", "c">>) }

\* the requests of the specification of init: every dimension value as a
\* width, the bounds and the invalid values as a height, and of the other
\* operations one body each
DimRequests ==
    [ ids |-> Uuids,
      elements |-> MaxElements,
      loads |-> MaxPending,
      init |-> {InitBody(v, JsInt(2)) : v \in DimValues}
                  \cup {InitBody(JsInt(2), v) : v \in {Undefined, JsInt(6000)}}
                  \cup {InitBody(JsInt(1), JsInt(5000)), InitBody(JsInt(5000), JsInt(1))},
      rect |-> { RectBody(JsInt(0), Undefined, JsInt(1), JsInt(1), Undefined, Undefined) },
      circle |-> { CircleBody(JsInt(1), JsInt(1), Undefined, Undefined, Undefined) },
      text |-> { TextBody(Undefined, JsInt(0), JsInt(0), Undefined, Undefined,
                          Undefined, Undefined) },
      image |-> { ImageBody(Url, JsInt(0), JsInt(0), Undefined, Undefined) },
      upload |-> { UploadBody(Undefined, Undefined, Undefined, Undefined,
                              Undefined) } ]

Left == <<"l", "e", "f", "t">>

\* a colour string no colour parser knows
Redd == <<"r", "e", "d", "d">>

\* a rectangle with the optional fields left out: black and filled
PlainRect == RectBody(JsInt(0), JsInt(0), JsInt(2), JsInt(2), Undefined, Undefined)

\* a rectangle over the lower right of PlainRect whose colour is misspelt
ReddRect == RectBody(JsInt(1), JsInt(1), JsInt(2), JsInt(2), Str(Redd), Bool(TRUE))

\* a blue disc over the lower right corner of PlainRect
BlueDisc == CircleBody(JsInt(2), JsInt(2), JsInt(1), Str(Blue), Undefined)

\* the requests of the specification of drawing: shapes that overlap on a
\* canvas of 3 by 3, added to two sessions in either order
DrawRequests ==
    [ ids |-> Uuids,
      elements |-> MaxDrawElements,
      loads |-> MaxPending,
      init |-> { InitBody(JsInt(3), JsInt(3)) },
      rect |-> { PlainRect, ReddRect },
      circle |-> { BlueDisc },
      text |-> { TextBody(Undefined, JsInt(0), JsInt(0), Undefined, Undefined,
                          Undefined, Undefined) },
      image |-> { ImageBody(Url, JsInt(1), JsInt(0), Undefined, Undefined) },
      upload |-> { UploadBody(Undefined, Undefined, Undefined, Undefined,
                              Undefined) } ]

\* the requests of the specification of partial input: every add with its
\* optional fields left out, and a rectangle with a null colour
PartialRequests ==
    [ ids |-> Uuids,
      elements |-> MaxElements,
      loads |-> MaxPending,
      init |-> { InitBody(JsInt(3), JsInt(3)) },
      rect |-> { PlainRect,
                 RectBody(JsInt(0), JsInt(0), JsInt(1), JsInt(1), Null, Undefined) },
      circle |-> { CircleBody(JsInt(1), JsInt(1), JsInt(1), Undefined, Undefined) },
      text |-> { TextBody(Str(<<"h", "i">>), JsInt(0), JsInt(0), Undefined, Undefined,
                          Undefined, Undefined) },
      image |-> { ImageBody(Url, JsInt(0), JsInt(0), Undefined, Undefined) },
      upload |-> { UploadBody(File, Undefined, Undefined, Undefined, Undefined) } ]

\* the requests of the specification of loads: image adds that overlap each
\* other and the other operations, from a URL that answers, from one that
\* never does and from an uploaded file
LoadRequests ==
    [ ids |-> Uuids,
      elements |-> MaxElements,
      loads |-> MaxLoads,
      init |-> { InitBody(JsInt(2), JsInt(2)) },
      rect |-> { RedRect },
      circle |-> { CircleBody(JsInt(1), JsInt(1), Undefined, Undefined, Undefined) },
      text |-> { TextBody(Undefined, JsInt(0), JsInt(0), Undefined, Undefined,
                          Undefined, Undefined) },
      image |-> { ImageBody(Url, JsInt(0), JsInt(0), Undefined, Undefined),
                  ImageBody(StallUrl, JsInt(0), JsInt(0), Undefined, Undefined) },
      upload |-> { UploadBody(File, Undefined, Undefined, Undefined, Undefined) } ]

\* a disc whose radius is negative
NegDisc == CircleBody(JsInt(1), JsInt(1), JsInt(-1), Str(Blue), Undefined)

\* the requests of the specification of faults: calls that fail after their
\* validation (an arc of negative radius, an export of a canvas of width 0,
\* an identifier inherited from Object.prototype, an image add whose session
\* is deleted during the load) among adds that succeed
FaultRequests ==
    [ ids |-> Uuids \cup {"constructor"},
      elements |-> MaxElements,
      loads |-> MaxPending,
      init |-> { InitBody(JsInt(2), JsInt(2)),
                 InitBody(Str(<<"a", "b", "c">>), JsInt(2)) },
      rect |-> { RedRect },
      circle |-> { NegDisc },
      text |-> { TextBody(Undefined, JsInt(0), JsInt(0), Undefined, Undefined,
                          Undefined, Undefined) },
      image |-> { ImageBody(Url, JsInt(0), JsInt(0), Undefined, Undefined) },
      upload |-> { UploadBody(Undefined, Undefined, Undefined, Undefined,
                              Undefined) } ]

\* the requests of the specification of zero values: adds that supply every
\* required field, some of them as 0 or as the empty string
ZeroRequests ==
    [ ids |-> Uuids,
      elements |-> MaxElements,
      loads |-> MaxPending,
      init |-> { InitBody(JsInt(2), JsInt(2)) },
      rect |-> { RectBody(JsInt(0), JsInt(0), JsInt(2), JsInt(1), Str(Red), Undefined),
                 RectBody(JsInt(0), JsInt(0), JsInt(0), JsInt(0), Str(Red), Undefined),
                 RectBody(JsInt(1), JsInt(1), JsInt(2), JsInt(0), Undefined, Undefined) },
      circle |-> { CircleBody(JsInt(0), JsInt(0), JsInt(1), Undefined, Undefined),
                   CircleBody(JsInt(0), JsInt(0), JsInt(0), Undefined, Undefined) },
      text |-> { TextBody(Str(<<"h", "i">>), JsInt(0), JsInt(0), Undefined, Undefined,
                          Undefined, Undefined),
                 TextBody(Str(<<>>), JsInt(0), JsInt(0), Undefined, Undefined,
                          Undefined, Undefined) },
      image |-> { ImageBody(Url, JsInt(0), JsInt(0), Undefined, Undefined) },
      upload |-> { UploadBody(File, Undefined, Undefined, Undefined, Undefined) } ]

\* ------------------------------------------------------------------------
\* Specification
\* ------------------------------------------------------------------------

Init ==
    /\ canvases = [id \in {} |-> Undefined]
    /\ issued = 0
    /\ pending = <<>>
    /\ deleted = {}
    /\ req = Request("none", "", NoBody, "entry")
    /\ res = NoReply

\* one handler step on a request drawn from R
Step(R) ==
    \/ \E body \in R.init : InitCanvas(body)
    \/ \E id \in R.ids, body \in R.rect : AddRectangle(id, body) /\ Room(R.elements)
    \/ \E id \in R.ids, body \in R.circle : AddCircle(id, body) /\ Room(R.elements)
    \/ \E id \in R.ids, body \in R.text : AddText(id, body) /\ Room(R.elements)
    \/ \E id \in R.ids, body \in R.image :
            AddImageStart("add/image", id, body) /\ Room(R.elements)
                                                 /\ InFlight(R.loads)
    \/ \E id \in R.ids, body \in R.upload :
            AddImageStart("add/image-upload", id, body) /\ Room(R.elements)
                                                        /\ InFlight(R.loads)
    \/ \E i \in 1..Len(pending) : AddImageRejected(i)
    \/ \E i \in 1..Len(pending), img \in Images : AddImageLoaded(i, img)
    \/ \E id \in R.ids : ExportPdf(id)
    \/ \E id \in R.ids : Preview(id)
    \/ \E id \in R.ids : Info(id)
    \/ \E id \in R.ids : Delete(id)

Next == Step(Requests)

Spec == Init /\ [][Next]_vars

NextDims == Step(DimRequests)

SpecDims == Init /\ [][NextDims]_vars

NextDraw == Step(DrawRequests)

SpecDraw == Init /\ [][NextDraw]_vars

NextPartial == Step(PartialRequests)

SpecPartial == Init /\ [][NextPartial]_vars

NextFaults == Step(FaultRequests)

SpecFaults == Init /\ [][NextFaults]_vars

NextLoads == Step(LoadRequests)

SpecLoads == Init /\ [][NextLoads]_vars

NextZero == Step(ZeroRequests)

SpecZero == Init /\ [][NextZero]_vars

\* the adds a caller makes on its session, in the order it issues them
Script ==
    << [op |-> "add/image",
        body |-> ImageBody(Url, JsInt(0), JsInt(0), Undefined, Undefined)],
       [op |-> "add/rectangle",
        body |-> RectBody(JsInt(1), JsInt(1), JsInt(2), JsInt(2), Str(Red),
                          Bool(TRUE))],
       [op |-> "add/image-upload",
        body |-> UploadBody(File, Str(<<"1">>), Undefined, Undefined, Undefined)],
       [op |-> "add/circle", body |-> BlueDisc],
       [op |-> "add/text",
        body |-> TextBody(Str(<<"h", "i">>), JsInt(0), JsInt(2), Undefined,
                          Undefined, Undefined, Undefined)] >>

\* the caller of session id issues its next add: only after the response to
\* its previous add has arrived, and, when that add failed, the same add
\* again
SerialAdd(id) ==
    /\ id \in DOMAIN canvases
    /\ \A k \in 1..Len(pending) : pending[k].id # id
    /\ Len(canvases[id].elements) < Len(Script)
    /\ LET a == Script[Len(canvases[id].elements) + 1]
       IN \/ a.op = "add/rectangle" /\ AddRectangle(id, a.body)
          \/ a.op = "add/circle" /\ AddCircle(id, a.body)
          \/ a.op = "add/text" /\ AddText(id, a.body)
          \/ a.op \in {"add/image", "add/image-upload"}
                /\ AddImageStart(a.op, id, a.body)

\* one handler step where every session's adds are serialised by its caller
NextSerial ==
    \/ InitCanvas(InitBody(JsInt(3), JsInt(3)))
    \/ \E id \in Uuids : SerialAdd(id)
    \/ \E i \in 1..Len(pending) : AddImageRejected(i)
    \/ \E i \in 1..Len(pending), img \in Images : AddImageLoaded(i, img)
    \/ \E id \in Uuids : ExportPdf(id)
    \/ \E id \in Uuids : Preview(id)
    \/ \E id \in Uuids : Info(id)
    \/ \E id \in Uuids : Delete(id)

SpecSerial == Init /\ [][NextSerial]_vars

\* ------------------------------------------------------------------------
\* Vocabulary of the properties
\* ------------------------------------------------------------------------

AddOps == {"add/rectangle", "add/circle", "add/text", "add/image", "add/image-upload"}

ImageOps == {"add/image", "add/image-upload"}

\* the operations that carry a session identifier
IdOps == AddOps \cup {"preview", "info", "export/pdf", "delete"}

\* the registry holds a session under id
Resolvable(id) == id \in DOMAIN canvases

SessionNotFound(r) == r.status = 404

InvalidDimensions(r) == r.status = 400

MissingField(r) == r.status = 400

ImageLoadFailure(r, op) == r.status = 500 /\ r = LoadFailure(op)

Succeeded(r) == r.status = 200

RECURSIVE Pow10(_)
Pow10(n) == IF n <= 0 THEN 1 ELSE 10 * Pow10(n - 1)

\* the value of number v is at most 0
NonPositive(v) ==
    v.t = "number" /\ ((v.c = "fin" /\ v.m <= 0) \/ (v.c = "inf" /\ v.m < 0))

\* the value of number v is greater than n (0 < n < 10000)
Exceeds(v, n) ==
    /\ v.t = "number"
    /\ \/ v.c = "inf" /\ v.m > 0
       \/ /\ v.c = "fin"
          /\ v.m > 0
          /\ IF v.e >= 0 THEN v.e > 3 \/ v.m * Pow10(v.e) > n
             ELSE v.e > -5 /\ v.m > n * Pow10(-v.e)

\* a dimension init has to refuse: missing, non-positive or above 5000
BadDimension(v) ==
    v \in {Undefined, Null} \/ NonPositive(v) \/ Exceeds(v, MaxDim)

\* a dimension init has to accept: an integer in 1..5000
GoodDimension(v) == IsInt(v) /\ v.m \in 1..MaxDim

\* ------------------------------------------------------------------------
\* C1. An operation on an identifier that has no session in the registry
\* fails with SessionNotFound and changes neither the registry nor a session.
\* ------------------------------------------------------------------------
C1_UnknownIdNotFound ==
    [][(req'.op \in IdOps /\ req'.pc = "entry" /\ ~Resolvable(req'.id))
          => (SessionNotFound(res') /\ canvases' = canvases /\ pending' = pending)]_vars

\* ------------------------------------------------------------------------
\* C2. Once a delete of id has succeeded, every operation started later with
\* that id, a second delete included, fails with SessionNotFound.
\* ------------------------------------------------------------------------
C2_DeletedNeverResolvable ==
    [][(req'.op \in IdOps /\ req'.pc = "entry" /\ req'.id \in deleted)
          => SessionNotFound(res')]_vars

\* ------------------------------------------------------------------------
\* C3. init with a width or height that is missing, non-positive or greater
\* than 5000 fails with InvalidDimensions and leaves the registry unchanged.
\* ------------------------------------------------------------------------
C3_BadDimensionsRejected ==
    [][(req'.op = "init"
            /\ (BadDimension(req'.body.width) \/ BadDimension(req'.body.height)))
          => (InvalidDimensions(res') /\ canvases' = canvases)]_vars

\* ------------------------------------------------------------------------
\* C4. Every session in the registry has a width and a height that are
\* integers in 1..5000, whatever values init was sent.
\* ------------------------------------------------------------------------
C4_DimensionsInRange ==
    \A id \in DOMAIN canvases :
        GoodDimension(canvases[id].width) /\ GoodDimension(canvases[id].height)

\* the surface of session s has the pixel dimensions s declares
SurfaceMatches(s) ==
    /\ IsInt(s.width) /\ s.canvas.width = s.width.m
    /\ IsInt(s.height) /\ s.canvas.height = s.height.m

\* ------------------------------------------------------------------------
\* C5. A session's width and height never change after creation, and the
\* pixel dimensions of its surface equal its declared width and height in
\* every reachable state.
\* ------------------------------------------------------------------------
C5_DimensionsFixedAndSurfaceMatches ==
    [][/\ \A id \in DOMAIN canvases' : SurfaceMatches(canvases'[id])
       /\ \A id \in DOMAIN canvases \cap DOMAIN canvases' :
            /\ canvases'[id].width = canvases[id].width
            /\ canvases'[id].height = canvases[id].height]_vars

\* how many of the first and of the last rows and columns of a surface the
\* pixel properties read (all of them on a surface up to twice this size)
ProbeSpan == 3

ProbeCoords(n) == {c \in 0..(n - 1) : c < ProbeSpan \/ c >= n - ProbeSpan}

\* every probed pixel of canvas cv has the colour
AllPixels(cv, colour) ==
    \A px \in ProbeCoords(cv.width), py \in ProbeCoords(cv.height) :
        PixelAt(cv, px, py) = colour

\* ------------------------------------------------------------------------
\* C6. Right after a successful init answering width w and height h, the new
\* session's surface is w by h pixels, all white, its log is empty, and info
\* on the returned id reports w, h and elementCount 0.
\* ------------------------------------------------------------------------
C6_FreshSessionWhiteAndEmpty ==
    (req.op = "init" /\ Succeeded(res)) =>
        /\ Resolvable(res.json.id)
        /\ IsInt(res.json.width) /\ IsInt(res.json.height)
        /\ canvases[res.json.id].canvas.width = res.json.width.m
        /\ canvases[res.json.id].canvas.height = res.json.height.m
        /\ AllPixels(canvases[res.json.id].canvas, White)
        /\ canvases[res.json.id].elements = <<>>
        /\ InfoJson(res.json.id, canvases[res.json.id]) =
              [id |-> res.json.id, width |-> res.json.width,
               height |-> res.json.height, elementCount |-> 0, elements |-> <<>>]

\* ------------------------------------------------------------------------
\* C7. init succeeds for every integer width and height in 1..5000, the
\* bounds 1 and 5000 included, and the session it creates stores, and the
\* response returns, exactly the requested width and height.
\* ------------------------------------------------------------------------
C7_DimensionsInRangeAccepted ==
    (req.op = "init" /\ GoodDimension(req.body.width) /\ GoodDimension(req.body.height)) =>
        /\ Succeeded(res)
        /\ res.json.width = req.body.width
        /\ res.json.height = req.body.height
        /\ Resolvable(res.json.id)
        /\ canvases[res.json.id].width = req.body.width
        /\ canvases[res.json.id].height = req.body.height

C7_Witness ==
    /\ req.op = "init"
    /\ req.body = InitBody(JsInt(MaxDim), JsInt(1))
    /\ Succeeded(res)
    /\ canvases[res.json.id].width = JsInt(MaxDim)

\* ------------------------------------------------------------------------
\* C8. An image add whose load fails answers ImageLoadFailure, and neither
\* its start nor its failure changes a surface or a log: the elements added
\* earlier stay as they were.
\* ------------------------------------------------------------------------
C8_FailedLoadChangesNothing ==
    [][(req'.op \in ImageOps /\ req'.pc \in {"entry", "rejected"})
          => /\ canvases' = canvases
             /\ req'.pc = "rejected" => ImageLoadFailure(res', req'.op)]_vars

C8_Witness ==
    /\ req.op \in ImageOps
    /\ req.pc = "rejected"
    /\ ImageLoadFailure(res, req.op)
    /\ Resolvable(req.id)
    /\ Len(canvases[req.id].elements) > 0

\* the fields an add cannot do without
RequiredFields(op) ==
    CASE op = "add/rectangle" -> {"x", "y", "width", "height"}
      [] op = "add/circle" -> {"x", "y", "radius"}
      [] op = "add/text" -> {"text", "x", "y"}
      [] op = "add/image" -> {"url", "x", "y"}
      [] op = "add/image-upload" -> {"file"}

LacksRequired(op, body) == \E f \in RequiredFields(op) : body[f] = Undefined

\* ------------------------------------------------------------------------
\* C9. An add on an existing session that lacks a required field fails with
\* MissingField before anything is mutated: no surface and no log changes,
\* and no image load is started.
\* ------------------------------------------------------------------------
C9_MissingFieldChangesNothing ==
    [][(req'.op \in AddOps /\ req'.pc = "entry" /\ Resolvable(req'.id)
            /\ LacksRequired(req'.op, req'.body))
          => (MissingField(res') /\ canvases' = canvases /\ pending' = pending)]_vars

C9_Witness ==
    /\ req.op = "add/rectangle"
    /\ req.pc = "entry"
    /\ Resolvable(req.id)
    /\ req.body.y = Undefined
    /\ MissingField(res)
    /\ Len(canvases[req.id].elements) > 0

\* the type an add logs
ElementType(op) ==
    CASE op = "add/rectangle" -> "rectangle"
      [] op = "add/circle" -> "circle"
      [] op = "add/text" -> "text"
      [] OTHER -> "image"

\* the fields of a request that its logged element carries
LoggedFields(op) ==
    CASE op = "add/rectangle" -> {"x", "y", "width", "height", "color", "isFilled"}
      [] op = "add/circle" -> {"x", "y", "radius", "color", "isFilled"}
      [] op = "add/text" ->
            {"text", "x", "y", "fontSize", "fontFamily", "color", "align"}
      [] op = "add/image" -> {"url", "x", "y", "width", "height"}
      [] op = "add/image-upload" -> {"x", "y", "width", "height"}

\* the logged value is the supplied one: the same value, or the number that
\* a supplied form field (a string) spells
SameValue(logged, supplied) ==
    \/ logged = supplied
    \/ /\ supplied.t = "string"
       /\ logged.t = "number"
       /\ JsToString(logged) = supplied.s

\* element e carries the type of the add and every field the body supplied
RecordsRequest(e, op, body) ==
    /\ e.type = ElementType(op)
    /\ \A f \in LoggedFields(op) :
          body[f] # Undefined => SameValue(e[f], body[f])

\* ------------------------------------------------------------------------
\* C10. Every successful add appends exactly one element to the end of the
\* session's log, with the type of the add and the field values the caller
\* supplied, so elementCount grows by 1; the red rectangle of the example is
\* logged with its fields and isFilled true.
\* ------------------------------------------------------------------------
C10_AddAppendsSuppliedElement ==
    [][(req'.op \in AddOps /\ Succeeded(res'))
          => /\ Resolvable(req'.id)
             /\ req'.id \in DOMAIN canvases'
             /\ Len(canvases'[req'.id].elements) = Len(canvases[req'.id].elements) + 1
             /\ SubSeq(canvases'[req'.id].elements, 1, Len(canvases[req'.id].elements))
                    = canvases[req'.id].elements
             /\ InfoJson(req'.id, canvases'[req'.id]).elementCount
                    = InfoJson(req'.id, canvases[req'.id]).elementCount + 1
             /\ RecordsRequest(
                    canvases'[req'.id].elements[Len(canvases'[req'.id].elements)],
                    req'.op, req'.body)
             /\ req'.body = RedRect =>
                    canvases'[req'.id].elements[Len(canvases'[req'.id].elements)]
                        = RectElement(JsInt(0), JsInt(0), JsInt(2), JsInt(1),
                                      Str(Red), Bool(TRUE))]_vars

\* log s is the beginning of log t
IsPrefix(s, t) == Len(s) <= Len(t) /\ SubSeq(t, 1, Len(s)) = s

\* ------------------------------------------------------------------------
\* C11. The Element Log of a live session is append-only: across every step
\* (a successful or failed add, preview, info, export, init, an operation on
\* another session) the log before is a prefix of the log after, and a
\* session leaves the registry only by a delete of its own id.
\* ------------------------------------------------------------------------
C11_LogAppendOnly ==
    [][/\ \A id \in DOMAIN canvases \cap DOMAIN canvases' :
              IsPrefix(canvases[id].elements, canvases'[id].elements)
       /\ \A id \in DOMAIN canvases \ DOMAIN canvases' :
              req'.op = "delete" /\ req'.id = id]_vars

C11_Witness ==
    /\ req.op \in AddOps
    /\ Resolvable(req.id)
    /\ MissingField(res)
    /\ Len(canvases[req.id].elements) = 2
    /\ canvases[req.id].elements[1] # canvases[req.id].elements[2]

\* v is a value: neither undefined nor null
Concrete(v) == v.t \notin {"undefined", "null"}

\* ------------------------------------------------------------------------
\* C12. Every element of every Element Log is fully resolved: each of its
\* fields holds a value, never undefined or null, whatever fields the
\* callers left out or sent as null.
\* ------------------------------------------------------------------------
C12_ElementsFullyResolved ==
    \A id \in DOMAIN canvases :
        \A i \in 1..Len(canvases[id].elements) :
            \A f \in DOMAIN canvases[id].elements[i] \ {"type"} :
                Concrete(canvases[id].elements[i][f])

\* the optional fields of an add that have a named default
OptionalFields(op) ==
    CASE op \in {"add/rectangle", "add/circle"} -> {"color", "isFilled"}
      [] op = "add/text" -> {"fontSize", "fontFamily", "color", "align"}
      [] op = "add/image-upload" -> {"x", "y"}
      [] OTHER -> {}

\* the named default of an optional field
NamedDefault(f) ==
    CASE f = "color" -> Str(Black)
      [] f = "isFilled" -> Bool(TRUE)
      [] f = "fontSize" -> JsInt(16)
      [] f = "fontFamily" -> Str(Arial)
      [] f = "align" -> Str(Left)
      [] f \in {"x", "y"} -> JsInt(0)

\* the primitive painted last on canvas cv
LastPainted(cv) == cv.ops[Len(cv.ops)]

\* the element logged last in session s
LastLogged(s) == s.elements[Len(s.elements)]

\* the last primitive painted on cv was painted with the default of field f
\* in place of a value of the request
DrawnWithDefault(cv, f, body) ==
    CASE f = "color" -> LastPainted(cv).color = Black
      [] f = "isFilled" -> LastPainted(cv).prim \in {"fillRect", "fill"}
      [] f = "fontSize" ->
            /\ LastPainted(cv).h = 16
            /\ SubSeq(cv.ctx.font, 1, 5) = <<"1", "6", "p", "x", " ">>
      [] f = "fontFamily" ->
            SubSeq(cv.ctx.font, Len(cv.ctx.font) - 4, Len(cv.ctx.font)) = Arial
      [] f = "align" ->
            cv.ctx.textAlign = Left /\ LastPainted(cv).x = Coord(body.x)
      [] f = "x" -> LastPainted(cv).x = 0
      [] f = "y" -> LastPainted(cv).y = 0

BoxResolved(f, body, img, e, p) ==
    IF body[f] # Undefined
    THEN /\ SameValue(e[f], body[f])
         /\ (IF f = "width" THEN p.w ELSE p.h) = Coord(body[f])
    ELSE /\ e[f] = JsInt(img[f])
         /\ (IF f = "width" THEN p.w ELSE p.h) = img[f]

\* ------------------------------------------------------------------------
\* C14. After a successful add/image or add/image-upload, the draw box and
\* the logged element have the width the caller supplied, or the image's
\* natural width when the caller supplied none, and likewise, independently,
\* the height.
\* ------------------------------------------------------------------------
C14_ImageBoxFromCallerOrImage ==
    (req.op \in ImageOps /\ Succeeded(res)) =>
        \E img \in Images :
            \A f \in {"width", "height"} :
                BoxResolved(f, req.body, img, LastLogged(canvases[req.id]),
                            LastPainted(canvases[req.id].canvas))

\* pixel (px, py) lies in the box of width w and height h at (x, y)
InBox(px, py, x, y, w, h) ==
    /\ Min(x, x + w) <= px /\ px < Max(x, x + w)
    /\ Min(y, y + h) <= py /\ py < Max(y, y + h)

\* a pixel has the colour that the string color names
Shows(pixel, color) == ParseColor(color) # <<>> /\ pixel = ParseColor(color)

\* ------------------------------------------------------------------------
\* C15. A successful filled add/rectangle sets every surface pixel inside
\* its box to its colour and leaves every pixel outside the box as it was;
\* a rectangle over the upper left 2 by 2 of a fresh canvas of 3 by 3 makes
\* pixel (1, 1) its colour and leaves pixel (2, 2) white.
\* ------------------------------------------------------------------------
C15_FilledRectanglePaintsItsBox ==
    [][(req'.op = "add/rectangle" /\ Succeeded(res')
            /\ Truthy(Default(req'.body.isFilled, Bool(TRUE))))
          => /\ \A px \in ProbeCoords(canvases[req'.id].canvas.width),
                   py \in ProbeCoords(canvases[req'.id].canvas.height) :
                    IF InBox(px, py, Coord(req'.body.x), Coord(req'.body.y),
                             Coord(req'.body.width), Coord(req'.body.height))
                    THEN Shows(PixelAt(canvases'[req'.id].canvas, px, py),
                               Default(req'.body.color, Str(Black)))
                    ELSE PixelAt(canvases'[req'.id].canvas, px, py)
                            = PixelAt(canvases[req'.id].canvas, px, py)
             /\ (req'.body = PlainRect /\ canvases[req'.id].elements = <<>>) =>
                    /\ PixelAt(canvases'[req'.id].canvas, 1, 1) = Black
                    /\ PixelAt(canvases'[req'.id].canvas, 2, 2) = White]_vars

\* element e is a filled rectangle or disc
FilledShape(e) ==
    e.type \in {"rectangle", "circle"} /\ Truthy(e.isFilled)

\* pixel (px, py) lies in the shape that the fields of element e describe (a
\* disc holds the pixels whose centre it holds)
InShape(e, px, py) ==
    IF e.type = "rectangle"
    THEN InBox(px, py, Coord(e.x), Coord(e.y), Coord(e.width), Coord(e.height))
    ELSE (2 * px + 1 - 2 * Coord(e.x)) * (2 * px + 1 - 2 * Coord(e.x))
            + (2 * py + 1 - 2 * Coord(e.y)) * (2 * py + 1 - 2 * Coord(e.y))
         <= 4 * Coord(e.radius) * Coord(e.radius)

\* sessions s and t of equal dimensions hold the same two filled shapes, in
\* opposite order, and the shapes overlap
SwappedPair(s, t) ==
    /\ s.width = t.width /\ s.height = t.height
    /\ Len(s.elements) = 2 /\ Len(t.elements) = 2
    /\ s.elements[1] = t.elements[2] /\ s.elements[2] = t.elements[1]
    /\ s.elements[1] # s.elements[2]
    /\ FilledShape(s.elements[1]) /\ FilledShape(s.elements[2])
    /\ \E px \in ProbeCoords(s.canvas.width), py \in ProbeCoords(s.canvas.height) :
            InShape(s.elements[1], px, py) /\ InShape(s.elements[2], px, py)

\* ------------------------------------------------------------------------
\* C16. When two sessions of equal dimensions hold the same two overlapping
\* filled elements, A then B in one and B then A in the other, their
\* surfaces are equal at every pixel outside the overlap of A and B, and
\* inside the overlap each surface shows the colour of its later element.
\* ------------------------------------------------------------------------
C16_OrderShowsOnlyInOverlap ==
    \A i \in DOMAIN canvases, j \in DOMAIN canvases :
        (i # j /\ SwappedPair(canvases[i], canvases[j])) =>
            \A px \in ProbeCoords(canvases[i].canvas.width),
               py \in ProbeCoords(canvases[i].canvas.height) :
                IF /\ InShape(canvases[i].elements[1], px, py)
                   /\ InShape(canvases[i].elements[2], px, py)
                THEN /\ Shows(PixelAt(canvases[i].canvas, px, py),
                               canvases[i].elements[2].color)
                     /\ Shows(PixelAt(canvases[j].canvas, px, py),
                               canvases[j].elements[2].color)
                ELSE PixelAt(canvases[i].canvas, px, py)
                        = PixelAt(canvases[j].canvas, px, py)

ReadOps == {"preview", "info", "export/pdf"}

\* ------------------------------------------------------------------------
\* C17. preview, info and export/pdf are pure reads: each leaves the
\* registry and the dimensions, surface and log of every session unchanged.
\* ------------------------------------------------------------------------
C17_ReadsChangeNothing ==
    [][req'.op \in ReadOps => canvases' = canvases]_vars

C17_Witness ==
    /\ req.op \in ReadOps
    /\ Succeeded(res)
    /\ Resolvable(req.id)
    /\ Len(canvases[req.id].elements) = 2

\* the raster a successful preview or export/pdf answered
Raster(r, op) == IF op = "preview" THEN r.json ELSE r.json.pages[1].image

\* rasters (or surfaces) a and b have the same size and the same pixels
SameRaster(a, b) ==
    /\ a.width = b.width /\ a.height = b.height
    /\ \A px \in ProbeCoords(a.width), py \in ProbeCoords(a.height) :
            PixelAt(a, px, py) = PixelAt(b, px, py)

\* ------------------------------------------------------------------------
\* C18. The raster of a successful export/pdf or preview is a function of
\* the session's surface alone: it has the surface's pixels, a surface
\* changes only in a successful add on its session, and a call that follows
\* a call of the same operation on the same session answers the same raster.
\* ------------------------------------------------------------------------
C18_SameSurfaceSameRaster ==
    [][/\ (req'.op \in {"preview", "export/pdf"} /\ Succeeded(res')) =>
              /\ SameRaster(Raster(res', req'.op), canvases[req'.id].canvas)
              /\ (req.op = req'.op /\ req.id = req'.id /\ Succeeded(res)) =>
                     SameRaster(Raster(res', req'.op), Raster(res, req.op))
       /\ \A id \in DOMAIN canvases \cap DOMAIN canvases' :
              ~SameRaster(canvases'[id].canvas, canvases[id].canvas) =>
                  (req'.op \in AddOps /\ req'.id = id /\ Succeeded(res'))]_vars

C18_Witness ==
    /\ req.op = "export/pdf"
    /\ Succeeded(res)
    /\ PixelAt(Raster(res, req.op), 0, 0) = Red
    /\ PixelAt(Raster(res, req.op), 1, 1) = White

C20_NoMutationWhileAddInFlight ==
    [][\A k \in 1..Len(pending) :
          (/\ pending[k].id \in DOMAIN canvases
           /\ req'.pc = "entry"
           /\ req'.op \in AddOps \cup {"delete"}
           /\ req'.id = pending[k].id)
          => /\ pending[k].id \in DOMAIN canvases'
             /\ canvases'[pending[k].id] = canvases[pending[k].id]]_vars

\* ------------------------------------------------------------------------
\* C21: every operation addressed to a session, whether it succeeds or fails,
\* deletes the session or is an image add resumed after its load, leaves
\* every other session in the registry with the same dimensions, the same
\* surface and the same log.
\* ------------------------------------------------------------------------

\* session B is in the registry after the step exactly as it was before
Untouched(B) == B \in DOMAIN canvases' /\ canvases'[B] = canvases[B]

C21_OtherSessionsUntouched ==
    [][\A B \in DOMAIN canvases : B # req'.id => Untouched(B)]_vars

\* an image add resumed and drew on its session while another session holds
\* an element
C21_Witness ==
    /\ req.pc = "loaded"
    /\ Succeeded(res)
    /\ \E B \in DOMAIN canvases \ {req.id} : Len(canvases[B].elements) > 0

\* ------------------------------------------------------------------------
\* C22: while an image add on a session is suspended in its load, init and
\* every operation on another session (add, preview, info, export, delete)
\* start and complete without waiting for that load: whenever an add is
\* suspended and the last step served a request that is not addressed to
\* the add's session, that step has answered, or it is an image add that
\* has reached its own load.
\* ------------------------------------------------------------------------

\* the last step is an image add now suspended in its own load
InOwnLoad ==
    /\ req.op \in ImageOps
    /\ req.pc = "entry"
    /\ \E j \in 1..Len(pending) :
            pending[j] = [op |-> req.op, id |-> req.id, body |-> req.body]

C22_OthersRunWhileLoadInFlight ==
    \A k \in 1..Len(pending) :
        (req.op # "none" /\ req.id # pending[k].id)
            => (res.status # 0 \/ InOwnLoad)

\* an add on one session answered with success while an image add on another
\* session is suspended
C22_Witness ==
    /\ req.op = "add/rectangle"
    /\ Succeeded(res)
    /\ \E k \in 1..Len(pending) : pending[k].id # req.id

\* ------------------------------------------------------------------------
\* C23: every image add eventually completes: when the fetch or the decode
\* does not finish on its own, a timeout ends the wait and the add answers
\* ImageLoadFailure.  A suspended add never changes while it waits, so it
\* completes only if some step that answers it is possible: the property
\* is that for every suspended add such a step exists.
\* ------------------------------------------------------------------------

\* some step ends the k-th suspended add with an answer
CanEnd(k) ==
    ENABLED (\/ AddImageRejected(k)
             \/ \E img \in Images : AddImageLoaded(k, img))

C23_EverySuspendedAddCanEnd == \A k \in 1..Len(pending) : CanEnd(k)

\* ------------------------------------------------------------------------
\* C24: when a drawing primitive fails inside an add, or an export fails,
\* the session's surface and log are what they were before the call, and
\* every later add paints and logs what it would have had the failed call
\* never been made.  What a later add paints and logs is a function of the
\* session it finds (surface, drawing context, log), so both parts hold
\* when the failed call leaves the registry as it found it.
\* ------------------------------------------------------------------------

\* the step answered an add or an export with a server error
FailedCall(r, rs) == r.op \in AddOps \cup {"export/pdf"} /\ rs.status = 500

C24_FailedCallLeavesSession ==
    [][FailedCall(req', res') => canvases' = canvases]_vars

\* add/circle failed in its arc on a session that holds an element
C24_Witness ==
    /\ req.op = "add/circle"
    /\ FailedCall(req, res)
    /\ req.id \in DOMAIN canvases
    /\ Len(canvases[req.id].elements) > 0

\* ------------------------------------------------------------------------
\* C25: no operation observes a registry entry that is partly initialised
\* or partly deleted: in the step that makes an id resolvable its session
\* already has a surface of the declared dimensions, all white, and an empty
\* log; every entry of the registry is a whole session; and the step that
\* deletes an id leaves nothing of it to resolve.
\* ------------------------------------------------------------------------

SessionFields == {"t", "canvas", "width", "height", "elements"}

\* session s as init is to store it: whole, white, of its dimensions, empty
WholeAndFresh(s) ==
    /\ DOMAIN s = SessionFields
    /\ SurfaceMatches(s)
    /\ AllPixels(s.canvas, White)
    /\ s.elements = <<>>

C25_NoPartialEntry ==
    [][/\ \A id \in DOMAIN canvases' \ DOMAIN canvases : WholeAndFresh(canvases'[id])
       /\ \A id \in DOMAIN canvases' : DOMAIN canvases'[id] = SessionFields
       /\ \A id \in DOMAIN canvases \ DOMAIN canvases' :
              Lookup(canvases', id) = Undefined]_vars

\* ------------------------------------------------------------------------
\* C26: no two distinct ids map to the same surface or the same log, and a
\* successful init adds exactly one registry entry, under an id that was
\* not present before, and leaves every existing entry unchanged.  Two ids
\* that mapped to one surface or one log would change together, so the
\* first part is that no step changes the sessions of two ids.
\* ------------------------------------------------------------------------

\* the session under id is not after the step what it was before
Changed(id) == id \in DOMAIN canvases' /\ canvases'[id] # canvases[id]

NothingShared ==
    \A A \in DOMAIN canvases, B \in DOMAIN canvases :
        (A # B /\ Changed(A)) => Untouched(B)

InitAddsOneEntry ==
    (req'.op = "init" /\ Succeeded(res')) =>
        /\ res'.json.id \notin DOMAIN canvases \cup deleted
        /\ DOMAIN canvases' = DOMAIN canvases \cup {res'.json.id}
        /\ \A B \in DOMAIN canvases : Untouched(B)

C26_FreshEntryNothingShared == [][NothingShared /\ InitAddsOneEntry]_vars

\* init succeeded when the registry held a session with an element and an
\* id had been deleted
C26_Witness ==
    /\ req.op = "init"
    /\ Succeeded(res)
    /\ deleted # {}
    /\ \E B \in DOMAIN canvases \ {res.json.id} : Len(canvases[B].elements) > 0

\* ------------------------------------------------------------------------
\* C27: info on a resolvable id answers the id, the width and the height
\* the session was created with, the elements of the log in the order they
\* were logged, and as elementCount the length of the log.  The width and
\* height a session is created with are the ones init answers, and they are
\* the session's for as long as the id resolves.
\* ------------------------------------------------------------------------

\* the session made by this step has the dimensions init answers
CreatedAsAnswered(id) ==
    /\ req'.op = "init" /\ res'.json.id = id
    /\ canvases'[id].width = res'.json.width
    /\ canvases'[id].height = res'.json.height

\* the session kept by this step keeps its dimensions
DimensionsKept(id) ==
    /\ canvases'[id].width = canvases[id].width
    /\ canvases'[id].height = canvases[id].height

\* answer a of info on id tells session s
Tells(a, id, s) ==
    /\ DOMAIN a = {"id", "width", "height", "elementCount", "elements"}
    /\ a.id = id
    /\ a.width = s.width /\ a.height = s.height
    /\ a.elementCount = Len(s.elements)
    /\ Len(a.elements) = Len(s.elements)
    /\ \A i \in 1..Len(s.elements) : a.elements[i] = s.elements[i]

C27_InfoTellsTheSession ==
    [][/\ \A id \in DOMAIN canvases' :
              IF id \in DOMAIN canvases THEN DimensionsKept(id)
              ELSE CreatedAsAnswered(id)
       /\ (req'.op = "info" /\ Succeeded(res')) =>
              /\ Resolvable(req'.id)
              /\ Tells(res'.json, req'.id, canvases[req'.id])]_vars

\* info answered for a session whose log holds two different elements
C27_Witness ==
    /\ req.op = "info"
    /\ Succeeded(res)
    /\ Len(res.json.elements) = 2
    /\ res.json.elements[1] # res.json.elements[2]

\* ------------------------------------------------------------------------
\* C28: in every reachable state a session's surface equals the result of
\* painting, onto an all-white surface of the session's dimensions, the
\* elements of its log in log order, each element from its own logged
\* fields alone: with the drawing context a new canvas has, not with what
\* earlier adds left in it.
\* ------------------------------------------------------------------------

\* the image an image element shows
ImageOf(e) == CHOOSE img \in Images : TRUE

\* element e painted on canvas cv from its logged fields, in the drawing
\* context of a new canvas
PaintAlone(cv, e) ==
    LET fresh == [cv EXCEPT !.ctx = NewContext]
    IN CASE e.type = "rectangle" ->
                DrawRectangle(fresh, e.x, e.y, e.width, e.height, e.color, e.isFilled)
         [] e.type = "circle" ->
                DrawCircle(fresh, e.x, e.y, e.radius, e.color, e.isFilled)
         [] e.type = "text" ->
                DrawText(fresh, e.text, e.x, e.y, e.fontSize, e.fontFamily,
                         e.color, e.align)
         [] e.type = "image" ->
                drawImage(fresh, ImageOf(e), e.x, e.y, e.width, e.height)

RECURSIVE Repaint(_, _)
Repaint(cv, log) ==
    IF log = <<>> THEN cv ELSE Repaint(PaintAlone(cv, Head(log)), Tail(log))

\* the log of session s painted on a white surface of the dimensions of s
Replay(s) == Repaint(NewSession(s.width, s.height).canvas, s.elements)

C28_SurfaceIsReplayOfLog ==
    \A id \in DOMAIN canvases :
        SameRaster(canvases[id].canvas, Replay(canvases[id]))

\* ------------------------------------------------------------------------
\* C29: if a session is deleted while an image add on it is suspended in
\* its load, then when the load finishes the add fails with
\* SessionNotFound, nothing is drawn or logged on any session, and the
\* deleted id stays absent from the registry.
\* ------------------------------------------------------------------------

\* the step resumes an image add whose session was deleted during the load
ResumedAfterDelete ==
    /\ req'.pc = "loaded"
    /\ req'.id \in deleted
    /\ req'.id \notin DOMAIN canvases

C29_ResumeAfterDeleteIsNotFound ==
    [][ResumedAfterDelete =>
            /\ SessionNotFound(res')
            /\ canvases' = canvases]_vars

\* ------------------------------------------------------------------------
\* C30: the draw and the append to the log of one successful add take
\* effect with no other operation between them: in every state an operation
\* can run in, the primitives painted on a session's surface after the
\* white fill of init are, one for one and in order, the paints of the
\* elements of its log, and what preview, export and info answer shows as
\* many paints as the log has elements.  (Every add of the requests of Spec
\* that succeeds paints one primitive.)
\* ------------------------------------------------------------------------

\* the primitives an element of the type is painted with
PrimsOf(type) ==
    CASE type = "rectangle" -> {"fillRect", "strokeRect"}
      [] type = "circle" -> {"fill", "stroke"}
      [] type = "text" -> {"fillText"}
      [] type = "image" -> {"drawImage"}

\* the surface of session s carries the paint of each logged element and
\* of nothing else
PaintAndLogAgree(s) ==
    /\ Len(s.canvas.ops) = 1 + Len(s.elements)
    /\ \A i \in 1..Len(s.elements) :
            s.canvas.ops[i + 1].prim \in PrimsOf(s.elements[i].type)

\* the paints in the answer of a read
PaintsSeen(r, op) ==
    IF op = "info" THEN r.json.elementCount ELSE Len(Raster(r, op).ops) - 1

C30_PaintAndLogTogether ==
    /\ \A id \in DOMAIN canvases : PaintAndLogAgree(canvases[id])
    /\ (req.op \in {"preview", "info", "export/pdf"} /\ Succeeded(res)) =>
            PaintsSeen(res, req.op) = Len(canvases[req.id].elements)

\* a preview answered for a session whose second element is an image drawn
\* by a resumed add
C30_Witness ==
    /\ req.op = "preview"
    /\ Succeeded(res)
    /\ Len(canvases[req.id].elements) = 2
    /\ canvases[req.id].elements[2].type = "image"

\* ------------------------------------------------------------------------
\* C31: in every reachable state a live session's elementCount equals the
\* number of adds on it that have completed successfully, also when several
\* image adds on the session are in flight at once and finish in any order.
\* The count starts at 0 when the session is made, so the property is that
\* every step raises it by one if the step completes an add on the session
\* successfully, and leaves it as it is otherwise.
\* ------------------------------------------------------------------------

\* what the step adds to the number of successful adds on id
Completes(id) ==
    IF req'.op \in AddOps /\ req'.id = id /\ Succeeded(res') THEN 1 ELSE 0

\* elementCount as info reports it for session s
ElementCount(id, s) == InfoJson(id, s).elementCount

C31_CountIsSuccessfulAdds ==
    [][\A id \in DOMAIN canvases' :
          ElementCount(id, canvases'[id]) =
              IF id \in DOMAIN canvases
              THEN ElementCount(id, canvases[id]) + Completes(id)
              ELSE 0]_vars

\* an image add completed on a session while another image add on the same
\* session, started before that completion, is still in flight
C31_Witness ==
    /\ req.pc = "loaded"
    /\ Succeeded(res)
    /\ ElementCount(req.id, canvases[req.id]) = 1
    /\ \E k \in 1..Len(pending) : pending[k].id = req.id /\ Settles(pending[k])

\* ------------------------------------------------------------------------
\* C32: when a caller serialises its adds on one session (each add is
\* issued only after the response to the previous one arrived), the order
\* of the elements in the log is the order in which the adds were issued,
\* and the elements are painted on the surface in that order: the i-th
\* element of the log records the i-th add of the caller, and the i-th
\* primitive painted after the white fill of init is the paint of that add.
\* ------------------------------------------------------------------------

\* primitive p is the paint of the add a, at the place a asks for
PaintsRequest(p, a) ==
    /\ p.prim \in PrimsOf(ElementType(a.op))
    /\ p.x = Coord(Default(a.body.x, JsInt(0)))
    /\ p.y = Coord(Default(a.body.y, JsInt(0)))

\* log and surface of session s follow the caller's adds in their order
InIssueOrder(s) ==
    /\ Len(s.elements) <= Len(Script)
    /\ Len(s.canvas.ops) = 1 + Len(s.elements)
    /\ \A i \in 1..Len(s.elements) :
            /\ RecordsRequest(s.elements[i], Script[i].op, Script[i].body)
            /\ PaintsRequest(s.canvas.ops[i + 1], Script[i])

C32_SerialAddsKeepIssueOrder ==
    \A id \in DOMAIN canvases : InIssueOrder(canvases[id])

\* the caller's third add, an upload, has completed after its image from a
\* URL and its rectangle
C32_Witness ==
    /\ req.op = "add/image-upload"
    /\ req.pc = "loaded"
    /\ Succeeded(res)
    /\ Len(canvases[req.id].elements) = 3

\* ------------------------------------------------------------------------
\* C33: add/rectangle, add/circle and add/text are rejected with
\* MissingField only when a required field is absent from the request: an
\* add on an existing session that supplies every required field, also as a
\* zero value (x, y, width, height or radius 0), is not rejected as missing.
\* ------------------------------------------------------------------------

ShapeOps == {"add/rectangle", "add/circle", "add/text"}

C33_MissingOnlyWhenAbsent ==
    (req.op \in ShapeOps /\ Resolvable(req.id) /\ MissingField(res))
        => LacksRequired(req.op, req.body)

\* ------------------------------------------------------------------------
\* C34: in every add the check that the session exists precedes the
\* validation of the fields: an add on an id the registry does not hold
\* whose body also lacks a required field fails with SessionNotFound, never
\* with MissingField.
\* ------------------------------------------------------------------------

C34_NotFoundBeforeMissing ==
    (req.op \in AddOps /\ req.pc = "entry" /\ ~Resolvable(req.id)
        /\ LacksRequired(req.op, req.body))
        => SessionNotFound(res)

====
